---- MODULE Spec2Model ----
(***************************************************************************)
(* Deep Work Timer (src/deep_work_timer.py): a countdown that a face       *)
(* detection thread pauses after 5 seconds without a face and resumes when *)
(* the face is back.                                                       *)
(*                                                                         *)
(* Two threads are modelled.  The main thread runs the Tk event loop:      *)
(* start_timer, update_timer (with TimerWindow.tick inlined), on_closing,  *)
(* the completion window's Close button and cleanup_and_exit.  Handlers of *)
(* the event loop never overlap each other, but the face detection thread  *)
(* runs between any two of their shared reads and writes, so update_timer  *)
(* and cleanup_and_exit are cut at those reads and writes.                 *)
(*                                                                         *)
(* Time is counted in ticks of half a second, the length of the thread's   *)
(* sleep: time.time() is `now`.  Only the thread reads the clock, so the   *)
(* clock advances in the thread's sleep step.                              *)
(***************************************************************************)
EXTENDS Integers, Sequences, FiniteSets

\* ---------------------------------------------------------------- bounds
MaxTime == 22           \* the clock stops the model at 11 seconds
MaxStep == 2            \* longest polling cycle, in ticks (sleep + processing)
MaxSide == 4            \* longest side of a detected face (VerdictSpec)
SecondsPerMinute == 3   \* "minutes * 60" scaled down so that a session can complete

\* ------------------------------------------------------ program constants
TicksPerSecond == 2           \* one tick is the sleep of 0.5 s
GraceSeconds == 5             \* "Wait 5 seconds before pausing"
ConfidenceThreshold == 30     \* face_present = confidence >= 30
ConfidenceCap == 100          \* min(100, ...)
ConfidenceScale == 1000       \* (face_area / frame_area) * 1000
MinMinutes == 1               \* minutes <= 0 is rejected
MaxMinutes == 999             \* minutes > 999 is rejected
ShowWebcamPreview == FALSE    \* self.show_webcam_preview

None == -1                    \* Python's None for no_face_start_time
GraceTicks == GraceSeconds * TicksPerSecond
SleepTicks == TicksPerSecond \div 2

MsgRange == "Please enter a value between 1 and 999 minutes"
MsgWebcam == "Could not access webcam"
MsgNumber == "Please enter a valid number"

VARIABLES
    \* DeepWorkTimer fields
    root_visible,         \* the input window is shown (root.withdraw() hides it)
    timer_window,         \* "None" or "TimerWindow"
    camera,               \* "None", "opened", "failed" (not isOpened()), "released"
    stop_threads,
    no_face_start_time,   \* None or a clock value
    last_state,           \* "running" or "paused"
    \* TimerWindow fields
    total_seconds,
    remaining_seconds,
    is_paused,
    \* control state
    main_pc,              \* where the main thread is
    update_scheduled,     \* root.after(1000, self.update_timer) is pending
    thread_pc,            \* where the face detection thread is
    ret,                  \* ret of the last camera.read()
    face_present,         \* face_present of the last observation
    now,                  \* time.time()
    \* what the program has emitted
    errors,               \* messages given to show_error
    completions,          \* calls of show_completion
    calls,                \* calls of timer_window.pause() / resume(), in order
    notifications,        \* NotificationPopup callbacks scheduled, in order
    \* history of the observations
    observed,             \* some observation has been made
    run_start,            \* timestamp of the first observation of the current absent run
    run_over,             \* an observation of the current run is >= 5 s after run_start
    run_pauses,           \* pause() calls during the current absent run
    reset_in_grace,       \* the last face-present observation cleared an absence
                          \* timer that had not yet led to a pause
    ticks_since_pause,    \* decrements since the last pause() with no resume() since
    update_timer_invoked, \* update_timer has been called
    calls_at_completion,  \* length of calls when show_completion was called
    \* the confidence computation taken alone (VerdictSpec)
    detect_frame,         \* the frame given to the computation
    confidence            \* its confidence, in thousandths; None without a face

vars == <<root_visible, timer_window, camera, stop_threads, no_face_start_time,
          last_state, total_seconds, remaining_seconds, is_paused, main_pc,
          update_scheduled, thread_pc, ret, face_present, now, errors,
          completions, calls, notifications, observed, run_start, run_over,
          run_pauses, reset_in_grace, ticks_since_pause, update_timer_invoked,
          calls_at_completion, detect_frame, confidence>>

app_vars == <<root_visible, timer_window, camera, stop_threads, total_seconds,
              remaining_seconds, main_pc, update_scheduled, errors, completions,
              ticks_since_pause, update_timer_invoked>>
debounce_vars == <<no_face_start_time, last_state, is_paused, calls, notifications>>
history_vars == <<observed, run_start, run_over, run_pauses, reset_in_grace>>
thread_vars == <<thread_pc, ret, face_present, now>>
verdict_vars == <<detect_frame, confidence>>

\* ------------------------------------------------------------------ inputs
\* What the user typed in time_entry: not a number, or an integer.
Entries == {[isint |-> FALSE, val |-> 0]} \cup
           {[isint |-> TRUE, val |-> v] : v \in {0, 1, 1000}}

\* A frame: its shape (rows, columns) and the faces detectMultiScale found,
\* each <<x, y, w, h>>.
Frames == {
    [shape |-> <<10, 10>>, faces |-> << >>],
    [shape |-> <<10, 10>>, faces |-> << <<0, 0, 1, 2>> >>],
    [shape |-> <<10, 10>>, faces |-> << <<0, 0, 1, 3>> >>],
    [shape |-> <<10, 10>>, faces |-> << <<0, 0, 1, 2>>, <<3, 3, 4, 5>> >>],
    [shape |-> <<10, 10>>, faces |-> << <<3, 3, 3, 1>>, <<0, 0, 1, 2>> >>] }

Min(a, b) == IF a <= b THEN a ELSE b

\* The state after DeepWorkTimer.__init__.  load_face_detector exits the
\* process (sys.exit(1)) when the cascade does not load.
Init ==
    /\ root_visible = TRUE
    /\ timer_window = "None"
    /\ camera = "None"
    /\ stop_threads = FALSE
    /\ no_face_start_time = None
    /\ last_state = "running"
    /\ total_seconds = 0
    /\ remaining_seconds = 0
    /\ is_paused = FALSE
    /\ main_pc \in {"idle", "exited"}
    /\ update_scheduled = FALSE
    /\ thread_pc = "unstarted"
    /\ ret = FALSE
    /\ face_present = TRUE
    /\ now = 0
    /\ errors = {}
    /\ completions = 0
    /\ calls = << >>
    /\ notifications = << >>
    /\ observed = FALSE
    /\ run_start = None
    /\ run_over = FALSE
    /\ run_pauses = 0
    /\ reset_in_grace = FALSE
    /\ ticks_since_pause = 0
    /\ update_timer_invoked = FALSE
    /\ calls_at_completion = 0
    /\ detect_frame = [shape |-> <<10, 10>>, faces |-> << >>]
    /\ confidence = None

\* --------------------------------------------------------------- start_timer
\* Mutant: the failed open is not noticed.
CameraUsableAlways(opened) == TRUE

\* Line 285: self.camera.isOpened().
CameraUsable(opened) == opened

\* Mutant: the input window stays usable after a start.
InputUsableAlways(visible) == TRUE

\* Lines 251, 260, 278: the Start button and the Return key of the input
\* window reach the user only while the window is shown.
InputUsable(visible) == visible

StartTimer(e, opened) ==
    /\ main_pc = "idle"
    /\ InputUsable(root_visible)
    /\ IF ~e.isint
       THEN /\ errors' = errors \cup {MsgNumber}
            /\ UNCHANGED <<root_visible, timer_window, camera, stop_threads,
                           total_seconds, remaining_seconds, is_paused, main_pc,
                           thread_pc>>
       ELSE IF e.val < MinMinutes \/ e.val > MaxMinutes
       THEN /\ errors' = errors \cup {MsgRange}
            /\ UNCHANGED <<root_visible, timer_window, camera, stop_threads,
                           total_seconds, remaining_seconds, is_paused, main_pc,
                           thread_pc>>
       ELSE /\ root_visible' = FALSE
            /\ timer_window' = "TimerWindow"
            /\ total_seconds' = e.val * SecondsPerMinute
            /\ remaining_seconds' = e.val * SecondsPerMinute
            /\ is_paused' = FALSE
            /\ camera' = IF opened THEN "opened" ELSE "failed"
            /\ IF ~CameraUsable(opened)
               THEN /\ errors' = errors \cup {MsgWebcam}
                    /\ UNCHANGED <<stop_threads, main_pc, thread_pc>>
               ELSE /\ stop_threads' = FALSE
                    /\ thread_pc' = "while"
                    /\ main_pc' = "update_timer"
                    /\ UNCHANGED errors
    /\ UNCHANGED <<no_face_start_time, last_state, update_scheduled, ret,
                   face_present, now, completions, calls, notifications,
                   ticks_since_pause, update_timer_invoked>>
    /\ UNCHANGED history_vars
    /\ UNCHANGED verdict_vars
    /\ UNCHANGED calls_at_completion

\* The last call on the timer window was pause(): no resume() since.
InPause == Len(calls) > 0 /\ calls[Len(calls)].op = "pause"

\* -------------------------------------------------- update_timer and tick
\* update_timer runs inline at the end of start_timer (main_pc = "update_timer")
\* or as the callback root.after(1000, ...) scheduled (update_scheduled).
\* Lines 303-307: the early return and the read of is_paused.
UpdateTimer ==
    /\ \/ main_pc = "update_timer"
       \/ main_pc = "idle" /\ update_scheduled
    /\ update_scheduled' = FALSE
    /\ update_timer_invoked' = TRUE
    /\ main_pc' = IF stop_threads \/ timer_window = "None" THEN "idle"
                  ELSE IF ~is_paused THEN "tick"
                  ELSE "finished_check"
    /\ UNCHANGED <<root_visible, timer_window, camera, stop_threads, total_seconds,
                   remaining_seconds, errors, completions, ticks_since_pause>>
    /\ UNCHANGED <<debounce_vars, history_vars, thread_vars>>
    /\ UNCHANGED verdict_vars
    /\ UNCHANGED calls_at_completion

\* Mutant: tick does not test is_paused.
TickAllowedPaused(paused, remaining) == remaining > 0

\* TimerWindow.tick, line 152: the test.
TickAllowed(paused, remaining) == ~paused /\ remaining > 0

Tick ==
    /\ main_pc = "tick"
    /\ main_pc' = IF TickAllowed(is_paused, remaining_seconds)
                  THEN "decrement" ELSE "finished_check"
    /\ UNCHANGED <<root_visible, timer_window, camera, stop_threads, total_seconds,
                   remaining_seconds, update_scheduled, errors, completions,
                   ticks_since_pause, update_timer_invoked>>
    /\ UNCHANGED <<debounce_vars, history_vars, thread_vars>>
    /\ UNCHANGED verdict_vars
    /\ UNCHANGED calls_at_completion

\* TimerWindow.tick, line 153: the decrement (and update_display).
Decrement ==
    /\ main_pc = "decrement"
    /\ remaining_seconds' = remaining_seconds - 1
    /\ ticks_since_pause' = IF InPause THEN ticks_since_pause + 1
                            ELSE ticks_since_pause
    /\ main_pc' = "finished_check"
    /\ UNCHANGED <<root_visible, timer_window, camera, stop_threads, total_seconds,
                   update_scheduled, errors, completions, update_timer_invoked>>
    /\ UNCHANGED <<debounce_vars, history_vars, thread_vars>>
    /\ UNCHANGED verdict_vars
    /\ UNCHANGED calls_at_completion

\* Lines 311-316: completion, or the next update in one second.
Finished(remaining) == remaining <= 0

\* Mutant: the next update is scheduled after the completion too.
ReschedulesAlways(finished) == TRUE

\* Lines 314-316: the next update is scheduled in the else branch only.
Reschedules(finished) == ~finished

FinishedCheck ==
    /\ main_pc = "finished_check"
    /\ IF Finished(remaining_seconds)
       THEN /\ stop_threads' = TRUE
            /\ completions' = completions + 1
            /\ calls_at_completion' = Len(calls)
       ELSE UNCHANGED <<stop_threads, completions, calls_at_completion>>
    /\ update_scheduled' = Reschedules(Finished(remaining_seconds))
    /\ main_pc' = "idle"
    /\ UNCHANGED <<root_visible, timer_window, camera, total_seconds,
                   remaining_seconds, errors, ticks_since_pause,
                   update_timer_invoked>>
    /\ UNCHANGED <<debounce_vars, history_vars, thread_vars>>
    /\ UNCHANGED verdict_vars

\* ------------------------------------------- on_closing, cleanup_and_exit
\* on_closing: the window manager's close request; it exits only from the
\* input screen.  It enters cleanup_and_exit, whose first line sets stop_threads.
\* The request is allowed whenever the event loop is idle, also while the root
\* window is withdrawn: the handler then does nothing.
OnClosing ==
    /\ main_pc = "idle"
    /\ IF timer_window = "None"
       THEN /\ stop_threads' = TRUE
            /\ main_pc' = "release"
       ELSE UNCHANGED <<stop_threads, main_pc>>
    /\ UNCHANGED <<root_visible, timer_window, camera, total_seconds,
                   remaining_seconds, update_scheduled, errors, completions,
                   ticks_since_pause, update_timer_invoked>>
    /\ UNCHANGED <<debounce_vars, history_vars, thread_vars>>
    /\ UNCHANGED verdict_vars
    /\ UNCHANGED calls_at_completion

\* The Close button of the completion window: command=self.cleanup_and_exit.
CloseButton ==
    /\ main_pc = "idle"
    /\ completions > 0
    /\ stop_threads' = TRUE
    /\ main_pc' = "release"
    /\ UNCHANGED <<root_visible, timer_window, camera, total_seconds,
                   remaining_seconds, update_scheduled, errors, completions,
                   ticks_since_pause, update_timer_invoked>>
    /\ UNCHANGED <<debounce_vars, history_vars, thread_vars>>
    /\ UNCHANGED verdict_vars
    /\ UNCHANGED calls_at_completion

\* Mutant: the camera is not released.
ReleasedNot(cam) == cam

\* cleanup_and_exit, lines 476-477.
Released(cam) == IF cam # "None" THEN "released" ELSE cam

CleanupRelease ==
    /\ main_pc = "release"
    /\ camera' = Released(camera)
    /\ main_pc' = "exit"
    /\ UNCHANGED <<root_visible, timer_window, stop_threads, total_seconds,
                   remaining_seconds, update_scheduled, errors, completions,
                   ticks_since_pause, update_timer_invoked>>
    /\ UNCHANGED <<debounce_vars, history_vars, thread_vars>>
    /\ UNCHANGED verdict_vars
    /\ UNCHANGED calls_at_completion

\* cleanup_and_exit, lines 480-485: the process exits and the daemon thread
\* with it.
CleanupExit ==
    /\ main_pc = "exit"
    /\ main_pc' = "exited"
    /\ UNCHANGED <<root_visible, timer_window, camera, stop_threads, total_seconds,
                   remaining_seconds, update_scheduled, errors, completions,
                   ticks_since_pause, update_timer_invoked>>
    /\ UNCHANGED <<debounce_vars, history_vars, thread_vars>>
    /\ UNCHANGED verdict_vars
    /\ UNCHANGED calls_at_completion

\* ----------------------------------------------------- face_detection_loop
Alive == main_pc # "exited"

\* Mutant: the loop does not look at stop_threads.
LoopContinuesAlways(stop) == TRUE

\* Line 340: while not self.stop_threads.
LoopContinues(stop) == ~stop

ThreadWhile ==
    /\ Alive
    /\ thread_pc = "while"
    /\ thread_pc' = IF LoopContinues(stop_threads) THEN "camera" ELSE "finished"
    /\ UNCHANGED <<ret, face_present, now>>
    /\ UNCHANGED <<app_vars, debounce_vars, history_vars>>
    /\ UNCHANGED verdict_vars
    /\ UNCHANGED calls_at_completion

\* Line 341: self.camera is not None and self.camera.isOpened().
ThreadCamera ==
    /\ Alive
    /\ thread_pc = "camera"
    /\ thread_pc' = IF camera # "None" /\ camera = "opened" THEN "read" ELSE "sleep"
    /\ UNCHANGED <<ret, face_present, now>>
    /\ UNCHANGED <<app_vars, debounce_vars, history_vars>>
    /\ UNCHANGED verdict_vars
    /\ UNCHANGED calls_at_completion

\* Lines 356-377: the confidence of a frame and the verdict.
Area(f) == f[3] * f[4]

\* Mutant: the first face detected is taken.
LargestFaceFirst(faces) == faces[1]

\* max(faces, key=area): the first face of the largest area.
LargestFace(faces) ==
    LET best == CHOOSE i \in 1..Len(faces) :
                   /\ \A j \in 1..Len(faces) : Area(faces[j]) <= Area(faces[i])
                   /\ \A j \in 1..(i - 1) : Area(faces[j]) < Area(faces[i])
    IN  faces[best]

\* confidence = min(100, face_area / frame_area * 1000), in thousandths so
\* that the comparison with the threshold stays exact.
ConfidenceMilli(frame) ==
    LET face_area == Area(LargestFace(frame.faces))
        frame_area == frame.shape[1] * frame.shape[2]
    IN  Min(ConfidenceCap * 1000,
            (face_area * ConfidenceScale * 1000) \div frame_area)

FacePresent(frame) ==
    IF Len(frame.faces) > 0
    THEN ConfidenceMilli(frame) >= ConfidenceThreshold * 1000
    ELSE FALSE

\* Lines 356-377 taken alone, on any frame of TestFrames: the confidence and
\* the verdict of one frame.
TestFaces == {<<0, 0, w, h>> : w \in 1..MaxSide, h \in 1..MaxSide}
TestFrames ==
    [shape : {<<10, 10>>, <<20, 10>>},
     faces : {<< >>} \cup {<<f>> : f \in TestFaces}
             \cup {<<f, g>> : f \in TestFaces, g \in TestFaces}]

Detect(f) ==
    /\ detect_frame' = f
    /\ confidence' = IF Len(f.faces) > 0 THEN ConfidenceMilli(f) ELSE None
    /\ face_present' = FacePresent(f)
    /\ observed' = TRUE
    /\ UNCHANGED <<app_vars, debounce_vars, thread_pc, ret, now, run_start,
                   run_over, run_pauses, reset_in_grace>>
    /\ UNCHANGED calls_at_completion

VerdictNext == \E f \in TestFrames : Detect(f)

VerdictSpec == Init /\ [][VerdictNext]_vars

\* Lines 395-415: the debounce.
\* Mutants: the grace period ends one sample early; the boundary is excluded.
GraceElapsedEarly(current_time, start) == current_time - start >= GraceTicks - 1
GraceElapsedLate(current_time, start) == current_time - start > GraceTicks

\* Line 398: current_time - self.no_face_start_time >= 5.
GraceElapsed(current_time, start) == current_time - start >= GraceTicks

\* Mutant: a face-present observation does not clear the absence timer.
AbsenceStartKept(present, start, current_time) ==
    IF start = None
    THEN IF present THEN None ELSE current_time
    ELSE start

\* no_face_start_time after the observation (lines 396-397, 408-409).
AbsenceStart(present, start, current_time) ==
    IF ~present
    THEN IF start = None THEN current_time ELSE start
    ELSE None

\* Mutant: pause() is called without the test of is_paused.
PausesAgain(present, start, current_time, paused) ==
    /\ ~present
    /\ start # None
    /\ GraceElapsed(current_time, start)

\* pause() is called (lines 395-401).
Pauses(present, start, current_time, paused) ==
    /\ ~present
    /\ start # None
    /\ GraceElapsed(current_time, start)
    /\ ~paused

\* Mutant: resume() is called on every face-present observation.
ResumesAlways(present, paused) == present

\* Mutant: resume() is called only while the absence timer is still set,
\* which the lines before it have just cleared.
ResumesNever(present, paused) == FALSE

\* resume() is called (lines 406-412).
Resumes(present, paused) == present /\ paused

\* Mutant: the notification is scheduled outside the test that pauses.
NotifiesPausedUnnested(pauses, state) == state # "paused"

\* The notification of a pause is scheduled (lines 400-404).
NotifiesPaused(pauses, state) == pauses /\ state # "paused"

\* Mutant: last_state is compared with the wrong state.
NotifiesResumedWrong(resumes, state) == resumes /\ state # "paused"

\* The notification of a resume is scheduled (lines 411-414).
NotifiesResumed(resumes, state) == resumes /\ state # "running"

\* TimerWindow.pause and TimerWindow.resume: the value is_paused gets.
\* Mutant: pause() does not set the flag.
PauseValueUnset == FALSE

PauseValue == TRUE
ResumeValue == FALSE

\* The observation of one frame at current_time (lines 344-415).
Observe(frame, current_time) ==
    LET present == FacePresent(frame)
        pauses == Pauses(present, no_face_start_time, current_time, is_paused)
        resumes == Resumes(present, is_paused)
        npaused == NotifiesPaused(pauses, last_state)
        nresumed == NotifiesResumed(resumes, last_state)
        start == IF ~present /\ run_start = None THEN current_time ELSE run_start
        over == ~present /\ run_start # None /\ current_time - run_start >= GraceTicks
    IN  /\ face_present' = present
        /\ no_face_start_time' = AbsenceStart(present, no_face_start_time, current_time)
        /\ is_paused' = IF pauses THEN PauseValue
                        ELSE IF resumes THEN ResumeValue
                        ELSE is_paused
        /\ calls' = IF pauses
                    THEN Append(calls, [op |-> "pause", was_paused |-> is_paused])
                    ELSE IF resumes
                    THEN Append(calls, [op |-> "resume", was_paused |-> is_paused])
                    ELSE calls
        /\ notifications' = IF npaused THEN Append(notifications, "paused")
                            ELSE IF nresumed THEN Append(notifications, "resumed")
                            ELSE notifications
        /\ last_state' = IF npaused THEN "paused"
                         ELSE IF nresumed THEN "running"
                         ELSE last_state
        /\ ticks_since_pause' = IF pauses \/ resumes THEN 0 ELSE ticks_since_pause
        \* history
        /\ observed' = TRUE
        /\ run_start' = IF present THEN None ELSE start
        /\ run_over' = IF present THEN FALSE ELSE (run_over \/ over)
        /\ run_pauses' = IF present THEN 0
                         ELSE IF pauses THEN run_pauses + 1
                         ELSE run_pauses
        /\ reset_in_grace' = IF present THEN (run_start # None /\ run_pauses = 0)
                             ELSE reset_in_grace

\* Mutant: a cycle without a frame is taken for an observation.
FrameUsableAlways(r) == TRUE

\* Line 344: if ret.
FrameUsable(r) == r

\* Lines 342-415: camera.read() and, when it gave a frame, the observation.
\* A released camera gives no frame.
ThreadRead(got, frame) ==
    /\ Alive
    /\ thread_pc = "read"
    /\ ret' = (got /\ camera = "opened")
    /\ IF FrameUsable(ret')
       THEN Observe(frame, now)
       ELSE UNCHANGED <<face_present, debounce_vars, history_vars, ticks_since_pause>>
    /\ thread_pc' = "sleep"
    /\ UNCHANGED <<root_visible, timer_window, camera, stop_threads, total_seconds,
                   remaining_seconds, main_pc, update_scheduled, errors,
                   completions, update_timer_invoked, now>>
    /\ UNCHANGED verdict_vars
    /\ UNCHANGED calls_at_completion

\* Lines 417-419: time.sleep(0.5); the cycle takes at least that long.  The
\* clock of the model stops at MaxTime and the thread goes on polling there.
ThreadSleep(d) ==
    /\ Alive
    /\ thread_pc = "sleep"
    /\ d >= (IF ShowWebcamPreview THEN 0 ELSE SleepTicks)
    /\ now' = Min(now + d, MaxTime)
    /\ thread_pc' = "while"
    /\ UNCHANGED <<ret, face_present>>
    /\ UNCHANGED <<app_vars, debounce_vars, history_vars>>
    /\ UNCHANGED verdict_vars
    /\ UNCHANGED calls_at_completion

Next ==
    \/ \E e \in Entries, opened \in BOOLEAN : StartTimer(e, opened)
    \/ UpdateTimer
    \/ Tick
    \/ Decrement
    \/ FinishedCheck
    \/ OnClosing
    \/ CloseButton
    \/ CleanupRelease
    \/ CleanupExit
    \/ ThreadWhile
    \/ ThreadCamera
    \/ \E got \in BOOLEAN, frame \in Frames : ThreadRead(got, frame)
    \/ \E d \in 0..MaxStep : ThreadSleep(d)

Spec == Init /\ [][Next]_vars

\* The steps of the face detection thread, and the steps the event loop takes
\* without the user: a callback that is due, and the rest of a handler that
\* has begun.
ThreadStep ==
    \/ ThreadWhile
    \/ ThreadCamera
    \/ \E got \in BOOLEAN, frame \in Frames : ThreadRead(got, frame)
    \/ \E d \in 0..MaxStep : ThreadSleep(d)

MainStep ==
    \/ UpdateTimer
    \/ Tick
    \/ Decrement
    \/ FinishedCheck
    \/ CleanupRelease
    \/ CleanupExit

\* The scheduler runs the thread again and again, and the event loop runs the
\* callbacks that are due; the user and the camera owe nothing.
FairSpec == Spec /\ WF_vars(ThreadStep) /\ WF_vars(MainStep)

\* ------------------------------------------------------------- properties
\* One polling cycle of the thread that made an observation, and one that
\* made none (no camera, or no frame).
ObservationStep == thread_pc = "read" /\ thread_pc' = "sleep" /\ ret'
NoObservationStep ==
    \/ thread_pc = "camera" /\ thread_pc' = "sleep"
    \/ thread_pc = "read" /\ thread_pc' = "sleep" /\ ~ret'

\* C1: while every observation of the current run of face-absent observations
\* is less than 5 seconds after the first one of the run, pause() has not been
\* called in the run and is_paused is false.
C1_NoPauseWithinGrace ==
    (run_start # None /\ ~run_over) => (~is_paused /\ run_pauses = 0)

\* An absent observation 4.5 s after the first of its run, and no pause.
C1_Witness ==
    /\ thread_pc = "sleep" /\ ret /\ ~face_present
    /\ run_start # None /\ now - run_start = GraceTicks - 1
    /\ ~is_paused /\ calls = << >>

\* C2: once an observation of the current absent run is at least 5 seconds
\* after the first one of the run, the timer is paused and exactly one pause()
\* has been called in the run; it was called at the first such observation,
\* since before it none has been called.
C2_OnePauseAtGrace ==
    /\ run_pauses <= 1
    /\ (run_start # None /\ run_over) => (is_paused /\ run_pauses = 1)
    /\ (run_start # None /\ run_pauses = 1) => run_over

\* An absent observation later than the one that paused: still one pause.
C2_Witness ==
    /\ thread_pc = "sleep" /\ ret /\ ~face_present
    /\ run_over /\ now - run_start > GraceTicks + 1
    /\ is_paused /\ run_pauses = 1 /\ Len(calls) = 1

\* C3: a face-present observation clears the absence timer, and the absence
\* timer is always the timestamp of the first absent observation since the
\* last face-present one; the timer is paused only when an observation lies
\* at least 5 seconds after that timestamp.
C3_ResetClearsAbsence ==
    /\ no_face_start_time = run_start
    /\ (observed /\ face_present) => no_face_start_time = None
    /\ is_paused => (no_face_start_time # None
                     /\ now - no_face_start_time >= GraceTicks)

\* A pause exactly 5 s into a run that began after a reset during the grace
\* window.
C3_Witness ==
    /\ reset_in_grace /\ is_paused /\ Len(calls) = 1
    /\ thread_pc = "sleep" /\ now - no_face_start_time = GraceTicks

\* C4: a face-present observation made while paused calls resume() once, in
\* that observation; a face-present observation made while not paused calls
\* nothing and schedules nothing.
C4_ResumeOnce ==
    [][(ObservationStep /\ face_present') =>
          IF is_paused
          THEN /\ ~is_paused'
               /\ calls' = Append(calls, [op |-> "resume", was_paused |-> TRUE])
          ELSE UNCHANGED <<is_paused, calls, notifications>>]_vars

\* The timer was paused and a face-present observation has resumed it.
C4_Witness ==
    /\ thread_pc = "sleep" /\ ret /\ face_present /\ ~is_paused
    /\ Len(calls) = 2 /\ calls[2].op = "resume"
    /\ notifications = <<"paused", "resumed">>

\* C5: the calls of pause() and resume() alternate, beginning with pause();
\* pause() is called only when is_paused is false and resume() only when it
\* is true; an observation with the verdict of the one before it that does
\* not cross the 5 second boundary calls neither.
Alternates ==
    \A i \in 1..Len(calls) :
        /\ calls[i].op = (IF i % 2 = 1 THEN "pause" ELSE "resume")
        /\ calls[i].was_paused = (calls[i].op = "resume")

CrossesGrace == ~face_present' /\ ~run_over /\ run_over'

C5_AlternatingCalls ==
    /\ []Alternates
    /\ [][(ObservationStep /\ observed /\ face_present' = face_present
             /\ ~CrossesGrace)
          => UNCHANGED <<calls, is_paused>>]_vars

\* Pause, resume and pause again.
C5_Witness ==
    /\ Len(calls) = 3 /\ calls[3].op = "pause" /\ is_paused

\* C6: a notification is scheduled only in a step that pauses the timer
\* ("paused") or resumes it ("resumed"), one per step.
C6_NotificationPerTransition ==
    [][notifications' # notifications =>
          \/ /\ ~is_paused /\ is_paused'
             /\ notifications' = Append(notifications, "paused")
          \/ /\ is_paused /\ ~is_paused'
             /\ notifications' = Append(notifications, "resumed")]_vars

\* The timer has stayed paused over a further absent observation and one
\* notification has been scheduled.
C6_Witness ==
    /\ thread_pc = "sleep" /\ ret /\ ~face_present /\ is_paused
    /\ now - run_start > GraceTicks + 1
    /\ notifications = <<"paused">>

\* C7: after pause() has been called and until the next resume(), the
\* countdown is decremented at most once.
C7_AtMostOneTickWhilePaused ==
    InPause => ticks_since_pause <= 1

\* The tick that had passed its test when pause() was called.
C7_Witness ==
    InPause /\ is_paused /\ ticks_since_pause = 1

\* C8: a polling cycle without an observation changes neither the absence
\* timer nor last_state nor is_paused, calls nothing and schedules nothing.
C8_NoFrameHoldsState ==
    [][NoObservationStep =>
          UNCHANGED <<no_face_start_time, last_state, is_paused, calls,
                      notifications>>]_vars

\* A cycle without a frame 5 s and more into an absence that has not paused.
C8_Witness ==
    /\ thread_pc = "sleep" /\ ~ret /\ ~is_paused
    /\ no_face_start_time # None /\ now - no_face_start_time >= GraceTicks

\* C9: when the camera could not be opened the error is shown and no session
\* runs: no thread, no update_timer, no decrement, no completion.
C9_NoSessionWithoutCamera ==
    camera = "failed" =>
        /\ MsgWebcam \in errors
        /\ thread_pc = "unstarted"
        /\ ~update_timer_invoked /\ ~update_scheduled /\ main_pc = "idle"
        /\ remaining_seconds = total_seconds
        /\ completions = 0

C9_Witness ==
    camera = "failed" /\ timer_window = "TimerWindow" /\ MsgWebcam \in errors

\* C10: when the process has exited, a camera that was opened has been
\* released.
C10_ReleasedBeforeExit ==
    main_pc = "exited" => camera \in {"None", "released"}

\* The exit after a completed session.
C10_Witness ==
    main_pc = "exited" /\ camera = "released" /\ completions = 1

\* C11: stop_threads, once set, stays set; the loop condition evaluated with
\* stop_threads set ends the thread, which starts no iteration after that;
\* and a thread whose stop has been asked for ends (or the process does).
C11_StopEndsThread ==
    /\ [][(stop_threads /\ thread_pc # "unstarted") => stop_threads']_vars
    /\ [][(thread_pc = "while" /\ stop_threads /\ thread_pc' # thread_pc)
            => thread_pc' = "finished"]_vars
    /\ [][thread_pc = "finished" => thread_pc' = "finished"]_vars
    /\ (stop_threads /\ thread_pc # "unstarted")
          ~> (thread_pc = "finished" \/ ~Alive)

\* The thread has ended after the completion of the session.
C11_Witness ==
    thread_pc = "finished" /\ stop_threads /\ completions = 1 /\ Alive

\* C12: a face detection thread is started only when none has been started
\* before, so there is at most one; no_face_start_time, last_state and
\* is_paused change only in an observation of that thread, and the steps of
\* the main thread leave them and the call and notification logs alone.
C12_SingleOwner ==
    /\ [][(main_pc # "update_timer" /\ main_pc' = "update_timer")
            => (thread_pc = "unstarted" /\ thread_pc' = "while")]_vars
    /\ [][(no_face_start_time' # no_face_start_time \/ last_state' # last_state
             \/ is_paused' # is_paused)
            => (thread_pc = "read" /\ thread_pc' = "sleep" /\ main_pc' = main_pc)]_vars
    /\ [][(main_pc' # main_pc \/ remaining_seconds' # remaining_seconds
             \/ stop_threads' # stop_threads)
            => UNCHANGED <<no_face_start_time, last_state, is_paused, calls,
                           notifications>>]_vars

\* The thread has paused the timer and the main thread has counted down.
C12_Witness ==
    /\ thread_pc = "sleep" /\ is_paused /\ last_state = "paused"
    /\ remaining_seconds < total_seconds /\ main_pc = "idle"

\* The countdown of an existing timer window stays within 0..total_seconds
\* and never increases.
CountdownInRange ==
    timer_window = "TimerWindow" =>
        (0 <= remaining_seconds /\ remaining_seconds <= total_seconds)

CountdownStep ==
    timer_window = "TimerWindow" /\ remaining_seconds' # remaining_seconds

\* C13 as claimed: the countdown is in range and never increases, and a
\* decrement is by 1 and happens only when remaining_seconds > 0 and the
\* timer is not paused.
C13_DecrementOnlyUnpaused ==
    /\ []CountdownInRange
    /\ [][CountdownStep =>
            /\ remaining_seconds' = remaining_seconds - 1
            /\ remaining_seconds > 0
            /\ ~is_paused]_vars

\* C13 as amended: the countdown is in range and never increases; a decrement
\* is by 1, of a positive value, and is the decrement of a tick whose test
\* (line 152) found the timer not paused and the countdown positive.
C13_DecrementAfterTest ==
    /\ []CountdownInRange
    /\ [][CountdownStep =>
            /\ remaining_seconds' = remaining_seconds - 1
            /\ remaining_seconds > 0
            /\ main_pc = "decrement"]_vars
    /\ [][(main_pc # "decrement" /\ main_pc' = "decrement")
            => (main_pc = "tick" /\ ~is_paused /\ remaining_seconds > 0)]_vars

\* A decrement made after the thread had paused the timer.
C13_Witness ==
    /\ main_pc = "finished_check" /\ is_paused /\ ticks_since_pause = 1
    /\ remaining_seconds = total_seconds - 1

\* C14: the verdict is "confidence >= 30" with confidence = min(100,
\* faceArea / frameArea * 1000) of the largest detected face; a confidence of
\* exactly 30 is present; a frame without a face is absent.
LargestArea(faces) ==
    CHOOSE a \in {faces[i][3] * faces[i][4] : i \in 1..Len(faces)} :
        \A i \in 1..Len(faces) : faces[i][3] * faces[i][4] <= a

C14_VerdictOfLargestFace ==
    observed =>
        LET frame_area == detect_frame.shape[1] * detect_frame.shape[2] IN
        IF Len(detect_frame.faces) = 0
        THEN ~face_present /\ confidence = None
        ELSE LET ratio_milli ==
                     (LargestArea(detect_frame.faces) * 1000 * 1000) \div frame_area
             IN  /\ confidence = IF ratio_milli > 100 * 1000 THEN 100 * 1000
                                 ELSE ratio_milli
                 /\ face_present = (confidence >= 30 * 1000)
                 /\ (LargestArea(detect_frame.faces) * 1000 = 30 * frame_area
                       => face_present)

\* A small face before the largest one, whose confidence is exactly 30.
C14_Witness ==
    /\ observed /\ Len(detect_frame.faces) = 2
    /\ Area(detect_frame.faces[1]) < Area(detect_frame.faces[2])
    /\ confidence = 30 * 1000 /\ face_present

\* C15: show_completion is called at most once; once it has been called,
\* stop_threads is set, no update is scheduled and update_timer is not
\* running, so no tick follows.
C15_CompletesOnce ==
    /\ completions <= 1
    /\ completions = 1 =>
          /\ stop_threads
          /\ ~update_scheduled
          /\ main_pc \in {"idle", "release", "exit", "exited"}
          /\ remaining_seconds = 0

\* The completed session, before the user closes it.
C15_Witness ==
    completions = 1 /\ main_pc = "idle" /\ thread_pc = "finished"

\* C16: between the iterations of the loop last_state is "paused" exactly
\* when is_paused is true, and every pause() and resume() has its one
\* notification.
C16_LastStateAgrees ==
    /\ (last_state = "paused") = is_paused
    /\ Len(notifications) = Len(calls)
    /\ \A i \in 1..Len(calls) :
          notifications[i] = (IF calls[i].op = "pause" THEN "paused" ELSE "resumed")

\* Paused, resumed and paused again, with the three notifications.
C16_Witness ==
    /\ thread_pc = "sleep" /\ is_paused /\ last_state = "paused"
    /\ notifications = <<"paused", "resumed", "paused">>

\* C17 as claimed: once show_completion has been called, no pause() or
\* resume() is called, is_paused does not change and no notification is
\* scheduled.
C17_QuietAfterCompletion ==
    [][completions > 0 => UNCHANGED <<calls, notifications, is_paused>>]_vars

\* C17 as amended: once show_completion has been called, only the iteration
\* the thread had begun before can still observe: at most one more call is
\* made, it is made by that observation, and after the observation the thread
\* goes through its sleep and the loop test to its end.
C17_OneIterationAfterCompletion ==
    /\ [](completions > 0 => Len(calls) <= calls_at_completion + 1)
    /\ [][(completions > 0
             /\ (calls' # calls \/ notifications' # notifications
                   \/ is_paused' # is_paused))
            => (thread_pc = "read" /\ thread_pc' = "sleep")]_vars
    /\ [][(completions > 0 /\ thread_pc \in {"sleep", "while", "finished"})
            => thread_pc' \in {"sleep", "while", "finished"}]_vars

\* The thread has made a call after the completion and has ended.
C17_Witness ==
    /\ completions = 1 /\ Len(calls) = calls_at_completion + 1
    /\ thread_pc = "finished"

\* C18: the thread never calls camera.read() (the step from "read" to
\* "sleep") on a camera that cleanup_and_exit has released.
C18_NoReadAfterRelease ==
    [][(thread_pc = "read" /\ thread_pc' = "sleep") => camera # "released"]_vars

\* The countdown reaches 0 and show_completion is called.
SessionStarted == thread_pc # "unstarted"
SessionCompletes == <>(remaining_seconds = 0 /\ completions > 0)

\* C19 as claimed: in a started session in which from some point on every
\* observation is face-present, a paused timer is eventually not paused, the
\* countdown reaches 0 and show_completion is called.
C19_PresentLeadsToCompletion ==
    (<>SessionStarted /\ <>[][ObservationStep => face_present']_vars)
        => ([](is_paused => <>(~is_paused)) /\ SessionCompletes)

\* C19 as amended: in a started session in which from some point on every
\* camera.read() gives a frame and every observation is face-present, a
\* paused timer is eventually not paused unless the session completes first,
\* the countdown reaches 0 and show_completion is called.
ReadStep == thread_pc = "read" /\ thread_pc' = "sleep"

C19_FramesPresentLeadToCompletion ==
    (<>SessionStarted /\ <>[][ReadStep => (ret' /\ face_present')]_vars)
        => ([](is_paused => <>(~is_paused \/ completions > 0))
            /\ SessionCompletes)

\* The session has completed after a pause and a resume.
C19_Witness ==
    /\ completions = 1 /\ remaining_seconds = 0 /\ ~is_paused
    /\ Len(calls) = 2 /\ face_present

\* C20: no reachable state is stuck without an exit path.  A state from
\* which some sequence of user actions and timer events leads to
\* cleanup_and_exit is either the exited state itself or a state in which some
\* handler or step can still change the state; this holds in every reachable
\* state, the one after start_timer failed to open the webcam included.
C20_NoStuckState == main_pc # "exited" => ENABLED <<Next>>_vars
====
